---- MODULE Spec2Model ----
(***************************************************************************)
(* Shop-Sections-Tracker (main.py): a poll loop that fetches the shop      *)
(* sections, normalizes each one, notifies a webhook about the sections    *)
(* that differ from the stored snapshot (release dates ignored) and        *)
(* rewrites the snapshot file when the full mapping differs.               *)
(***************************************************************************)
EXTENDS Integers, Sequences, FiniteSets, TLC

(***************************************************************************)
(* Bounds of the model.                                                    *)
(***************************************************************************)
\* Longest "sections" list a fetch returns.
MaxSections == 2

(***************************************************************************)
(* Python values.                                                          *)
(***************************************************************************)
\* A key that a JSON object does not carry (dict.get falls back to its default).
Absent == "<absent>"
\* Python's None / JSON null.
None == "<None>"

\* Python truthiness of the values a section's field can take.
Truthy(v) == v \notin {Absent, None, ""}

\* dict.get(key, default) on a field of a raw section.
Get(v, default) == IF v = Absent THEN default ELSE v

\* The strings that get sorted, in Python's (code point) order.
StrOrder == <<"2024-01-01", "2024-02-01", "A", "B", "Unknown", "bad-date">>

StrRank(s) == CHOOSE i \in 1..Len(StrOrder) : StrOrder[i] = s

\* list.insert into a sorted list, after the equal elements (sorted is stable).
RECURSIVE Insert(_, _)
Insert(x, s) ==
    IF s = <<>> THEN <<x>>
    ELSE IF StrRank(x) < StrRank(Head(s)) THEN <<x>> \o s
    ELSE <<Head(s)>> \o Insert(x, Tail(s))

\* A list left in the order of the ranks.
unsorted(s) == s

\* sorted(list of strings)
RECURSIVE sorted(_)
sorted(s) == IF s = <<>> THEN <<>> ELSE Insert(s[Len(s)], sorted(SubSeq(s, 1, Len(s) - 1)))

\* sorted(set(...)): the distinct elements, ascending.
RECURSIVE sorted_set(_)
sorted_set(S) ==
    IF S = {} THEN <<>>
    ELSE LET m == CHOOSE x \in S : \A y \in S : StrRank(x) <= StrRank(y)
         IN  <<m>> \o sorted_set(S \ {m})

\* str(n) for the counts that occur.
str(n) == <<"0", "1", "2", "3", "4">>[n + 1]

\* The empty dict.
EmptyDict == [k \in {} |-> k]

\* d with key k bound to v (d[k] = v).
DictSet(d, k, v) == [x \in DOMAIN d \cup {k} |-> IF x = k THEN v ELSE d[x]]

(***************************************************************************)
(* Raw sections: what the catalog endpoint can return for one section.     *)
(***************************************************************************)
Rank(context, startDate) == [context |-> context, startDate |-> startDate]

Section(id, name, category, texture, groups, ranks) ==
    [sectionID |-> id, displayName |-> name, category |-> category,
     customTexture |-> texture, offerGroups |-> groups, stackRanks |-> ranks]

\* Category present, two billboards, ranks out of order with a repeated context.
SecDaily == Section("a", "Daily", "Featured", "tex1", <<"billboard", "billboard">>,
                    <<Rank("B", "2024-02-01"), Rank("A", "2024-01-01"), Rank("A", "2024-01-01")>>)
\* SecDaily with other release dates only (one of them empty).
SecDailyLater == Section("a", "Daily", "Featured", "tex1", <<"billboard", "billboard">>,
                         <<Rank("A", "2024-02-01"), Rank("B", "")>>)
\* The same section ID with everything else gone: no category, no groups, no ranks.
SecBare == Section("a", "Daily", Absent, Absent, <<>>, <<>>)
\* No category, one billboard among two groups, a rank without context or date.
SecWeekly == Section("b", "Weekly", Absent, "tex1", <<"billboard", "grid">>,
                     <<Rank(Absent, Absent), Rank("A", "2024-01-01")>>)
\* SecWeekly with a start date that datetime.fromisoformat rejects.
SecWeeklyBad == Section("b", "Weekly", Absent, "tex1", <<"billboard", "grid">>,
                        <<Rank(Absent, "bad-date"), Rank("A", Absent)>>)
\* No sectionID and no displayName; category present, no billboard.
SecNoId == Section(Absent, Absent, "Featured", Absent, <<"grid">>, <<Rank("A", "2024-01-01")>>)

RawSections == {SecDaily, SecDailyLater, SecBare, SecWeekly, SecWeeklyBad, SecNoId}

\* The lists of at most n raw sections.
SectionLists(n) == UNION {[1..k -> RawSections] : k \in 0..n}

(***************************************************************************)
(* Section normalizer (the body of the loop in process_shop_data).         *)
(***************************************************************************)
\* sum(1 for group in offerGroups if group.get("displayType") == "billboard")
RECURSIVE billboard_count(_)
billboard_count(groups) ==
    IF groups = <<>> THEN 0
    ELSE (IF Head(groups) = "billboard" THEN 1 ELSE 0) + billboard_count(Tail(groups))

\* [rank.get("startDate") for rank in stackRanks if rank.get("startDate")]
RECURSIVE start_dates(_)
start_dates(ranks) ==
    IF ranks = <<>> THEN <<>>
    ELSE (IF Truthy(Head(ranks).startDate) THEN <<Head(ranks).startDate>> ELSE <<>>)
         \o start_dates(Tail(ranks))

\* section.get("sectionID", "N/A")
section_id_of(section) == Get(section.sectionID, "N/A")

\* The new_section record built for one raw section.
new_section_of(section) ==
    [display_name   |-> Get(section.displayName, "N/A"),
     category       |-> IF Truthy(section.category) THEN section.category ELSE None,
     background_url |-> IF Truthy(section.customTexture) THEN section.customTexture
                        ELSE "No Background",
     group_count    |-> Len(section.offerGroups),
     billboard      |-> billboard_count(section.offerGroups),
     contexts       |-> sorted_set({Get(section.stackRanks[i].context, "Unknown") :
                                      i \in DOMAIN section.stackRanks}),
     release_dates  |-> sorted(start_dates(section.stackRanks))]

\* {k: v for k, v in d.items() if k != "release_dates"}
without_dates(d) == [k \in DOMAIN d \ {"release_dates"} |-> d[k]]

\* old_data.get(section_id, {})
old_section_of(old, section_id) == IF section_id \in DOMAIN old THEN old[section_id] ELSE EmptyDict

\* A comparison that takes a section without a stored entry for unchanged.
is_changed_known_only(old_section, new_section) ==
    old_section # EmptyDict /\ without_dates(old_section) # without_dates(new_section)

\* A comparison that forgets to drop the release dates.
is_changed_with_dates(old_section, new_section) == old_section # new_section

\* The test that decides a notification: the records differ once the release dates are dropped.
is_changed(old_section, new_section) == without_dates(old_section) # without_dates(new_section)

\* A comparison that ignores the release dates, as the per-section test does.
is_snapshot_changed_without_dates(old, new) ==
    [k \in DOMAIN old |-> without_dates(old[k])] # [k \in DOMAIN new |-> without_dates(new[k])]

\* The test that decides the rewrite of the snapshot file: old_data != new_data.
is_snapshot_changed(old, new) == old # new

(***************************************************************************)
(* Notification formatter.                                                 *)
(***************************************************************************)
\* The dates datetime.fromisoformat accepts.
IsoDates == {"2024-01-01", "2024-02-01"}

\* int(datetime.fromisoformat(date).timestamp())
unix_ts(date) == IF date = "2024-01-01" THEN 1704067200 ELSE 1706745600

\* to_discord_timestamp: the token "<t:unix:R>".
to_discord_timestamp(date) == [t |-> unix_ts(date), style |-> "R"]

Field(name, value, inline) == [name |-> name, value |-> value, inline |-> inline]

\* create_embed_for_section raises ValueError on a date that fromisoformat rejects.
embed_raises(new_section) ==
    \E i \in DOMAIN new_section.release_dates : new_section.release_dates[i] \notin IsoDates

\* An embed whose second row always carries the background, category or not.
create_embed_with_second_background(section, new_section) ==
    LET background_field == IF Truthy(section.customTexture)
                            THEN [link |-> section.customTexture]
                            ELSE [text |-> "No Background"]
    IN  <<Field("**Display Name**", Get(section.displayName, "N/A"), TRUE),
          Field("**Section ID**", Get(section.sectionID, "N/A"), TRUE)>>
        \o (IF Truthy(section.category)
            THEN <<Field("**Category**", section.category, TRUE)>>
            ELSE <<Field("**Background**", background_field, TRUE)>>)
        \o <<Field("**Background**", background_field, TRUE),
              Field("**Group Count**", str(new_section.group_count), TRUE)>>
        \o (IF new_section.billboard > 0
            THEN <<Field("**Billboard**", str(new_section.billboard), TRUE)>>
            ELSE <<>>)
        \o <<Field("**Context(s)**", new_section.contexts, FALSE),
              Field("**Possible Release Dates**", new_section.release_dates, FALSE)>>

\* The fields of the embed, in order ("\n".join is kept as the list of its lines).
create_embed_for_section(section, new_section) ==
    LET background_url   == section.customTexture
        display_name     == Get(section.displayName, "N/A")
        section_id       == Get(section.sectionID, "N/A")
        category         == section.category
        background_field == IF Truthy(background_url) THEN [link |-> background_url]
                            ELSE [text |-> "No Background"]
        contexts         == IF new_section.contexts # <<>>
                            THEN [lines |-> new_section.contexts]
                            ELSE [text |-> "No Context"]
        release_dates    == IF new_section.release_dates # <<>>
                            THEN [lines |-> [i \in DOMAIN new_section.release_dates |->
                                     to_discord_timestamp(new_section.release_dates[i])]]
                            ELSE [text |-> "No Release Dates"]
        fields           == <<Field("**Display Name**", display_name, TRUE),
                              Field("**Section ID**", section_id, TRUE)>>
                            \o (IF Truthy(category)
                                THEN <<Field("**Category**", category, TRUE)>>
                                ELSE <<Field("**Background**", background_field, TRUE)>>)
        second_row       == (IF Truthy(category)
                             THEN <<Field("**Background**", background_field, TRUE)>>
                             ELSE <<>>)
                            \o <<Field("**Group Count**", str(new_section.group_count), TRUE)>>
                            \o (IF new_section.billboard > 0
                                THEN <<Field("**Billboard**", str(new_section.billboard), TRUE)>>
                                ELSE <<>>)
    IN  fields \o second_row
        \o <<Field("**Context(s)**", contexts, FALSE),
             Field("**Possible Release Dates**", release_dates, FALSE)>>

(***************************************************************************)
(* State.                                                                  *)
(***************************************************************************)
VARIABLES
    file,       \* old_shop_data.json: absent, not valid JSON, or a JSON object
    pc,         \* where main_loop / process_shop_data stands
    response,   \* what the GET of the current cycle came back with
    sections,   \* the sections list of the current fetch
    old_data,   \* the snapshot loaded in this cycle
    new_data,   \* the mapping built in this cycle
    tasks,      \* the send_to_discord coroutines of this cycle
    log,        \* what the current cycle has done so far, in order
    file0,      \* the snapshot file as it was when the current cycle began
    prev,       \* the cycle before, for as long as the GET of the current one is out
    repeat      \* whether the current fetch returned the list of the cycle before

vars == <<file, pc, response, sections, old_data, new_data, tasks, log, file0, prev, repeat>>

Ev(ev, arg) == [ev |-> ev, arg |-> arg]

FileAbsent  == [kind |-> "absent",  data |-> EmptyDict]
FileCorrupt == [kind |-> "corrupt", data |-> EmptyDict]
FileJson(data) == [kind |-> "json", data |-> data]

\* read_old_data: the stored mapping, or {} when the file is missing or does not parse.
read_old_data(f) == IF f.kind = "json" THEN f.data ELSE EmptyDict

\* How save_data can end: written; open() refused (file left alone); the dump failed after
\* open(.., "w") truncated the file.  Every failure is logged and swallowed.
SaveOutcomes == {"ok", "open_failed", "write_failed"}

\* A save that patches the stored mapping instead of replacing it.
save_data_patching(f, data, outcome) ==
    CASE outcome = "ok"           ->
             FileJson([k \in DOMAIN f.data \cup DOMAIN data |->
                          IF k \in DOMAIN data THEN data[k] ELSE f.data[k]])
      [] outcome = "open_failed"  -> f
      [] outcome = "write_failed" -> FileCorrupt

save_data(f, data, outcome) ==
    CASE outcome = "ok"           -> FileJson(data)
      [] outcome = "open_failed"  -> f
      [] outcome = "write_failed" -> FileCorrupt

\* What the catalog endpoint can answer with status 200 and a JSON body.
Bodies ==
    {[has_shopData |-> FALSE, has_sections |-> FALSE, sections |-> <<>>],
     [has_shopData |-> TRUE,  has_sections |-> FALSE, sections |-> <<>>]}
    \cup {[has_shopData |-> TRUE, has_sections |-> TRUE, sections |-> l] :
            l \in SectionLists(MaxSections)}

\* data.get("shopData", {}).get("sections", [])
sections_of(body) == IF body.has_shopData /\ body.has_sections THEN body.sections ELSE <<>>

\* The ways the fetch fails: non-200 status, requests.RequestException, body not JSON.
FetchErrors == {"status", "transport", "json"}

NoBody == [has_shopData |-> FALSE, has_sections |-> FALSE, sections |-> <<>>]

\* No response yet.
NoResponse == [kind |-> "none", body |-> NoBody]

\* Everything the GET can end with.
Responses ==
    {[kind |-> k, body |-> NoBody] : k \in FetchErrors}
    \cup {[kind |-> "ok", body |-> b] : b \in Bodies}

\* What a webhook POST can end with: 204, another status, requests.RequestException.
PostOutcomes == {"204", "status", "transport"}

Task(i, embed) == [section |-> i, embed |-> embed, state |-> "created", result |-> "none"]

\* new_section, and the embed built from it, for every section the endpoint can return.
normalized == [s \in RawSections |-> new_section_of(s)]

embeds == [s \in RawSections |-> create_embed_for_section(s, new_section_of(s))]

\* The for loop over the fetched sections, from section i on.  It stops at the first
\* section whose embed cannot be built (the exception leaves the loop).
RECURSIVE section_loop(_, _, _, _)
section_loop(i, secs, old, acc) ==
    IF i > Len(secs) THEN acc
    ELSE LET section     == secs[i]
             section_id  == section_id_of(section)
             new_section == normalized[section]
             nd          == DictSet(acc.new_data, section_id, new_section)
         IN  IF ~is_changed(old_section_of(old, section_id), new_section)
             THEN section_loop(i + 1, secs, old, [acc EXCEPT !.new_data = nd])
             ELSE IF embed_raises(new_section)
             THEN [acc EXCEPT !.new_data = nd, !.detected = Append(@, i), !.raised = TRUE]
             ELSE section_loop(i + 1, secs, old,
                      [acc EXCEPT !.new_data = nd, !.detected = Append(@, i),
                                  !.tasks = Append(@, Task(i, embeds[section]))])

\* What is remembered of a finished cycle: whether its fetch succeeded and its write of
\* the snapshot, if any, did too; whether an error ended it; the list it fetched and the
\* sections of it that compared as changed.
NoCycle == [ok |-> FALSE, error |-> FALSE, sections |-> <<>>, detected |-> {}]

Finished(r, l, secs) ==
    IF r.kind = "ok" /\ \A k \in DOMAIN l : l[k].ev # "save_failed"
    THEN [ok       |-> TRUE,
          error    |-> \E k \in DOMAIN l : l[k].ev = "error",
          sections |-> secs,
          detected |-> {l[k].arg : k \in {j \in DOMAIN l : l[j].ev = "detect"}}]
    ELSE NoCycle

\* Whether response r repeats the fetch of finished cycle c, and what c was like.
NoRepeat == [same |-> FALSE, error |-> FALSE, detected |-> {}]

Repeats(r, c) ==
    IF c.ok /\ r.kind = "ok" /\ sections_of(r.body) = c.sections
    THEN [same |-> TRUE, error |-> c.error, detected |-> c.detected]
    ELSE NoRepeat

LoopStart == [new_data |-> EmptyDict, tasks |-> <<>>, detected |-> <<>>, raised |-> FALSE]

Init ==
    /\ file \in {FileAbsent, FileCorrupt}
    /\ pc = "call"
    /\ response = NoResponse
    /\ sections = <<>>
    /\ old_data = EmptyDict
    /\ new_data = EmptyDict
    /\ tasks = <<>>
    /\ log = <<>>
    /\ file0 = file
    /\ prev = NoCycle
    /\ repeat = NoRepeat

(***************************************************************************)
(* Steps of main_loop and process_shop_data.                               *)
(***************************************************************************)
\* main_loop calls process_shop_data, which issues the GET in a worker thread.
Call ==
    /\ pc = "call"
    /\ pc' = "fetch"
    /\ log' = <<Ev("GET", 0)>>
    /\ file0' = file
    /\ UNCHANGED <<file, response, sections, old_data, new_data, tasks, prev, repeat>>

\* The worker thread comes back: a response, or an exception of requests.
Respond(r) ==
    /\ pc = "fetch"
    /\ response' = r
    /\ pc' = "response"
    /\ repeat' = Repeats(r, prev)
    /\ prev' = NoCycle
    /\ UNCHANGED <<file, sections, old_data, new_data, tasks, log, file0>>

\* A failed fetch that is logged but not returned from: the cycle goes on with no sections.
FetchError_fallthrough ==
    /\ pc = "response"
    /\ response.kind \in FetchErrors
    /\ sections' = <<>>
    /\ old_data' = read_old_data(file)
    /\ new_data' = EmptyDict
    /\ tasks' = <<>>
    /\ log' = (log \o <<Ev("error", 0)>>) \o <<Ev("read", 0)>>
    /\ pc' = "loop"
    /\ UNCHANGED <<file, response, file0, prev, repeat>>

\* The fetch failed: the error is logged and process_shop_data returns.
FetchError ==
    /\ pc = "response"
    /\ response.kind \in FetchErrors
    /\ pc' = "sleep"
    /\ log' = Append(log, Ev("error", 0))
    /\ UNCHANGED <<file, response, sections, old_data, new_data, tasks, file0, prev, repeat>>

\* A fetch that indexes the body, data["shopData"]["sections"]: a missing key raises.
FetchOk_indexing ==
    /\ pc = "response"
    /\ response.kind = "ok"
    /\ IF response.body.has_shopData /\ response.body.has_sections
       THEN /\ sections' = response.body.sections
            /\ old_data' = read_old_data(file)
            /\ log' = Append(log, Ev("read", 0))
            /\ pc' = "loop"
       ELSE /\ sections' = <<>>
            /\ old_data' = EmptyDict
            /\ log' = Append(log, Ev("error", 0))
            /\ pc' = "sleep"
    /\ new_data' = EmptyDict
    /\ tasks' = <<>>
    /\ UNCHANGED <<file, response, file0, prev, repeat>>

\* Status 200 with a JSON body: take the sections, load the snapshot, start afresh.
FetchOk ==
    /\ pc = "response"
    /\ response.kind = "ok"
    /\ sections' = sections_of(response.body)
    /\ old_data' = read_old_data(file)
    /\ new_data' = EmptyDict
    /\ tasks' = <<>>
    /\ log' = Append(log, Ev("read", 0))
    /\ pc' = "loop"
    /\ UNCHANGED <<file, response, file0, prev, repeat>>

\* A loop that catches the exception per section and dispatches what it has.
ProcessSections_dispatching ==
    /\ pc = "loop"
    /\ \E r \in {section_loop(1, sections, old_data, LoopStart)} :
       LET detects == [k \in DOMAIN r.detected |-> Ev("detect", r.detected[k])]
       IN  /\ new_data' = r.new_data
           /\ tasks' = r.tasks
           /\ log' = IF r.raised THEN (log \o detects) \o <<Ev("error", 0)>> ELSE log \o detects
           /\ pc' = IF r.tasks # <<>> THEN "gather" ELSE "persist"
    /\ UNCHANGED <<file, response, sections, old_data, file0, prev, repeat>>

\* The for loop: normalize, compare, create one coroutine per changed section.  An
\* exception in it is caught by "except Exception": the coroutines are dropped unrun.
ProcessSections ==
    /\ pc = "loop"
    /\ \E r \in {section_loop(1, sections, old_data, LoopStart)} :
       LET detects == [k \in DOMAIN r.detected |-> Ev("detect", r.detected[k])]
       IN  /\ new_data' = r.new_data
           /\ IF r.raised
              THEN /\ tasks' = <<>>
                   /\ log' = (log \o detects) \o <<Ev("error", 0)>>
                   /\ pc' = "sleep"
              ELSE /\ tasks' = r.tasks
                   /\ log' = log \o detects
                   /\ pc' = IF r.tasks # <<>> THEN "gather" ELSE "persist"
    /\ UNCHANGED <<file, response, sections, old_data, file0, prev, repeat>>

\* A dispatch whose failure is not caught: it leaves gather and ends the cycle.
Post_raising(i, outcome) ==
    /\ pc = "gather"
    /\ i \in DOMAIN tasks
    /\ tasks[i].state = "created"
    /\ \A j \in 1..(i - 1) : tasks[j].state # "created"
    /\ log' = Append(log, Ev("post", i))
    /\ IF outcome = "204"
       THEN /\ tasks' = [tasks EXCEPT ![i].state = "sleeping", ![i].result = "sent"]
            /\ pc' = pc
       ELSE /\ tasks' = [tasks EXCEPT ![i].state = "done", ![i].result = "failed"]
            /\ pc' = "sleep"
    /\ UNCHANGED <<file, response, sections, old_data, new_data, file0, prev, repeat>>

\* Dispatches awaited one after the other: a POST waits for the cooldowns before it.
Post_sequential(i, outcome) ==
    /\ pc = "gather"
    /\ i \in DOMAIN tasks
    /\ tasks[i].state = "created"
    /\ \A j \in 1..(i - 1) : tasks[j].state = "done"
    /\ tasks' = [tasks EXCEPT ![i].state = "sleeping",
                              ![i].result = IF outcome = "204" THEN "sent" ELSE "failed"]
    /\ log' = Append(log, Ev("post", i))
    /\ UNCHANGED <<file, pc, response, sections, old_data, new_data, file0, prev, repeat>>

\* gather starts the coroutines in list order; each one runs its blocking requests.post
\* to the end before it yields at asyncio.sleep(1), so the next one starts only then.
Post(i, outcome) ==
    /\ pc = "gather"
    /\ i \in DOMAIN tasks
    /\ tasks[i].state = "created"
    /\ \A j \in 1..(i - 1) : tasks[j].state # "created"
    /\ tasks' = [tasks EXCEPT ![i].state = "sleeping",
                              ![i].result = IF outcome = "204" THEN "sent" ELSE "failed"]
    /\ log' = Append(log, Ev("post", i))
    /\ UNCHANGED <<file, pc, response, sections, old_data, new_data, file0, prev, repeat>>

\* The cooldown of dispatch i ends.  The timers are served only after every coroutine
\* that was ready has run its first step, that is after every POST, and in the order
\* of their deadlines, which is the order of the POSTs.
Wake(i) ==
    /\ pc = "gather"
    /\ i \in DOMAIN tasks
    /\ tasks[i].state = "sleeping"
    /\ \A j \in DOMAIN tasks : tasks[j].state # "created"
    /\ \A j \in 1..(i - 1) : tasks[j].state = "done"
    /\ tasks' = [tasks EXCEPT ![i].state = "done"]
    /\ log' = Append(log, Ev("cooldown", i))
    /\ UNCHANGED <<file, pc, response, sections, old_data, new_data, file0, prev, repeat>>

\* A wait that returns as soon as one dispatch has returned.
GatherDone_first ==
    /\ pc = "gather"
    /\ \E j \in DOMAIN tasks : tasks[j].state = "done"
    /\ pc' = "persist"
    /\ UNCHANGED <<file, response, sections, old_data, new_data, tasks, log, file0, prev, repeat>>

\* await asyncio.gather(*tasks) returns once every dispatch has returned.
GatherDone ==
    /\ pc = "gather"
    /\ \A j \in DOMAIN tasks : tasks[j].state = "done"
    /\ pc' = "persist"
    /\ UNCHANGED <<file, response, sections, old_data, new_data, tasks, log, file0, prev, repeat>>

\* A save whose failure is not swallowed: the exception ends main_loop.
SaveData_raising(outcome) ==
    /\ pc = "persist"
    /\ is_snapshot_changed(old_data, new_data)
    /\ file' = save_data(file, new_data, outcome)
    /\ log' = Append(log, Ev(IF outcome = "ok" THEN "saved" ELSE "save_failed", 0))
    /\ pc' = IF outcome = "ok" THEN "sleep" ELSE "crashed"
    /\ UNCHANGED <<response, sections, old_data, new_data, tasks, file0, prev, repeat>>

\* old_data != new_data: save_data(new_data), whatever becomes of the write.
SaveData(outcome) ==
    /\ pc = "persist"
    /\ is_snapshot_changed(old_data, new_data)
    /\ file' = save_data(file, new_data, outcome)
    /\ log' = Append(log, Ev(IF outcome = "ok" THEN "saved" ELSE "save_failed", 0))
    /\ pc' = "sleep"
    /\ UNCHANGED <<response, sections, old_data, new_data, tasks, file0, prev, repeat>>

\* old_data == new_data: "No changes detected", the file is not opened.
NoChange ==
    /\ pc = "persist"
    /\ ~is_snapshot_changed(old_data, new_data)
    /\ log' = Append(log, Ev("unchanged", 0))
    /\ pc' = "sleep"
    /\ UNCHANGED <<file, response, sections, old_data, new_data, tasks, file0, prev, repeat>>

\* A loop that starts the cycle as a background task and does not wait for it.
Timer_unawaited ==
    /\ pc \in {"gather", "persist", "sleep"}
    /\ pc' = "call"
    /\ log' = <<Ev("interval", 0)>>
    /\ response' = NoResponse
    /\ sections' = <<>>
    /\ old_data' = EmptyDict
    /\ new_data' = EmptyDict
    /\ tasks' = <<>>
    /\ prev' = Finished(response, log, sections)
    /\ repeat' = NoRepeat
    /\ UNCHANGED <<file, file0>>

\* asyncio.sleep(CHECK_INTERVAL) elapses and the loop goes round.  The locals of the
\* finished call, kept until here for inspection, are gone.
Timer ==
    /\ pc = "sleep"
    /\ pc' = "call"
    /\ log' = <<Ev("interval", 0)>>
    /\ response' = NoResponse
    /\ sections' = <<>>
    /\ old_data' = EmptyDict
    /\ new_data' = EmptyDict
    /\ tasks' = <<>>
    /\ prev' = Finished(response, log, sections)
    /\ repeat' = NoRepeat
    /\ UNCHANGED <<file, file0>>

Next ==
    \/ Call
    \/ \E r \in Responses : Respond(r)
    \/ FetchError
    \/ FetchOk
    \/ ProcessSections
    \/ \E i \in 1..(MaxSections + 1), outcome \in PostOutcomes : Post(i, outcome)
    \/ \E i \in 1..(MaxSections + 1) : Wake(i)
    \/ GatherDone
    \/ \E outcome \in SaveOutcomes : SaveData(outcome)
    \/ NoChange
    \/ Timer

Spec == Init /\ [][Next]_vars

\* The event loop keeps running its one thread of control: the GET and every POST
\* come back (with a response or an exception) and every sleep ends.
LiveSpec == Spec /\ WF_vars(Next)

(***************************************************************************)
(* Vocabulary of the properties.                                           *)
(***************************************************************************)
\* The events ev of the current cycle, as positions of the log.
Events(ev) == {k \in DOMAIN log : log[k].ev = ev}

Happened(ev) == Events(ev) # {}

\* The webhook POSTs of the current cycle that carry fetched section i.
PostsFor(i) == {k \in Events("post") : log[k].arg \in DOMAIN tasks /\ tasks[log[k].arg].section = i}

\* The fields of a normalized record other than the release dates.
IdentityFields == {"display_name", "category", "background_url", "group_count", "billboard", "contexts"}

\* Fetched section i has no entry under its section ID in the loaded snapshot, or one
\* that differs from its normalized record in a field other than the release dates.
DiffersBesidesDates(i) ==
    LET id == section_id_of(sections[i])
        n  == new_section_of(sections[i])
    IN  \/ id \notin DOMAIN old_data
        \/ \E f \in IdentityFields : old_data[id][f] # n[f]

\* Fetched section i differs from its stored entry in the release dates and nothing else.
DiffersInDatesOnly(i) ==
    LET id == section_id_of(sections[i])
    IN  /\ ~DiffersBesidesDates(i)
        /\ old_data[id].release_dates # new_section_of(sections[i]).release_dates

\* The cycle got its sections (the fetch succeeded) and has left the dispatch step behind.
PastDispatch == response.kind = "ok" /\ pc \in {"persist", "sleep"}

FetchedIds == {section_id_of(sections[i]) : i \in DOMAIN sections}

\* The last fetched section that carries the ID.
LastWith(id) ==
    CHOOSE i \in DOMAIN sections :
        /\ section_id_of(sections[i]) = id
        /\ \A j \in DOMAIN sections : j > i => section_id_of(sections[j]) # id

\* The full new mapping of the fetch: section ID to normalized record.
FetchedMapping == [id \in FetchedIds |-> new_section_of(sections[LastWith(id)])]

\* The snapshot as it was loaded at the start of the cycle.
LoadedSnapshot == IF file0.kind = "json" THEN file0.data ELSE EmptyDict

\* The cycle has called save_data (the write was attempted).
WriteAttempted == Happened("saved") \/ Happened("save_failed")

\* The cycle has come to its end without an error.
CycleEnded == pc = "sleep" /\ response.kind = "ok" /\ ~Happened("error")

C3_FetchFailureAborts ==
    response.kind \in FetchErrors =>
        /\ pc \in {"response", "sleep"}
        /\ ~Happened("post") /\ ~Happened("read") /\ ~WriteAttempted
        /\ file = file0
        /\ sections = <<>> /\ old_data = EmptyDict /\ new_data = EmptyDict /\ tasks = <<>>
        /\ pc = "sleep" => (log = <<Ev("GET", 0), Ev("error", 0)>> /\ ENABLED Timer)

\* A fetch answered with a bad status while a snapshot is stored; the cycle is over.
C3_Witness ==
    /\ response.kind = "status"
    /\ pc = "sleep"
    /\ file.kind = "json" /\ file.data # EmptyDict

(***************************************************************************)
(* C4                                                                      *)
(***************************************************************************)
\* Dispatch i of the current cycle has returned by log position k: POST and cooldown.
ReturnedBefore(i, k) ==
    /\ \E p \in Events("post") : p < k /\ log[p].arg = i
    /\ \E c \in Events("cooldown") : c < k /\ log[c].arg = i

\* C4: a cycle reads the snapshot once and writes it at most once, the write comes
\* after every dispatch of the cycle has returned, and while any dispatch is still in
\* progress the file holds its pre-cycle contents.
C4_WriteAfterAllDispatches ==
    /\ Cardinality(Events("read")) <= 1
    /\ pc \in {"loop", "gather", "persist"} => Cardinality(Events("read")) = 1
    /\ Cardinality(Events("saved") \cup Events("save_failed")) <= 1
    /\ \A k \in Events("saved") \cup Events("save_failed") :
          \A i \in DOMAIN tasks : ReturnedBefore(i, k)
    /\ (\E i \in DOMAIN tasks : tasks[i].state # "done") => file = file0

\* A cycle of two dispatches, one of them failed, that went on to rewrite the file.
C4_Witness ==
    /\ pc = "sleep"
    /\ Len(tasks) >= 2
    /\ \E i \in DOMAIN tasks : tasks[i].result = "failed"
    /\ Happened("saved")
    /\ file # file0

(***************************************************************************)
(* C5                                                                      *)
(***************************************************************************)
\* The cycle began with the snapshot file absent or not valid JSON.
NoUsableSnapshot == file0.kind \in {"absent", "corrupt"}

C6_SnapshotReplacedInFull ==
    (pc = "sleep" /\ Happened("saved")) =>
        /\ file = FileJson(FetchedMapping)
        /\ \A id \in DOMAIN LoadedSnapshot \ FetchedIds : id \notin DOMAIN file.data

\* A cycle that persisted a fetch lacking a section ID the previous snapshot held.
C6_Witness ==
    /\ pc = "sleep" /\ Happened("saved")
    /\ sections # <<>>
    /\ DOMAIN LoadedSnapshot \ FetchedIds # {}

(***************************************************************************)
(* C7                                                                      *)
(***************************************************************************)
\* C7: a failed dispatch stops no sibling of its cycle and leaves the snapshot
\* decision alone: every dispatch of the cycle issues its POST and returns, and the
\* file is written or left exactly as the comparison of the mappings says.
C7_FailedDispatchIsIndependent ==
    (response.kind = "ok" /\ pc \in {"persist", "sleep"} /\ tasks # <<>>) =>
        /\ \A i \in DOMAIN tasks :
              /\ tasks[i].state = "done"
              /\ Cardinality({p \in Events("post") : log[p].arg = i}) = 1
        /\ pc = "sleep" =>
              /\ WriteAttempted <=> (FetchedMapping # LoadedSnapshot)
              /\ Happened("saved") => file = FileJson(FetchedMapping)

\* A finished cycle in which the first dispatch failed, a later one was sent, and the
\* snapshot was persisted.
C7_Witness ==
    /\ pc = "sleep"
    /\ \E i, j \in DOMAIN tasks : i < j /\ tasks[i].result = "failed" /\ tasks[j].result = "sent"
    /\ Happened("saved")

(***************************************************************************)
(* C8                                                                      *)
(***************************************************************************)
\* C8: the cooldown after each dispatch bounds the outbound rate: between any two
\* webhook POSTs of a cycle a cooldown elapses.
C8_CooldownBetweenPosts ==
    \A p, q \in Events("post") :
        p < q => \E c \in Events("cooldown") : p < c /\ c < q

(***************************************************************************)
(* C9                                                                      *)
(***************************************************************************)
\* C9 as stated: the dispatches of a cycle are not gated on each other and their POSTs
\* have no order: whichever dispatch has not issued its POST yet may issue it next.
C9_AnyPendingDispatchMayPostNext ==
    pc = "gather" =>
        \A i \in DOMAIN tasks : tasks[i].state = "created" => ENABLED Post(i, "204")

\* C9 (amended): no dispatch waits for the cooldown of another dispatch of its cycle
\* before it issues its POST, but the POSTs are issued one at a time in the order of
\* the fetched sections, each once the POST before it has returned.
C9_PostsInFetchOrderNotGatedOnCooldown ==
    /\ pc = "gather" =>
          \A i \in DOMAIN tasks :
              (tasks[i].state = "created" /\ \A j \in 1..(i - 1) : tasks[j].state # "created")
                  => ENABLED Post(i, "204")
    /\ \A p, q \in Events("post") :
          p < q => /\ log[p].arg < log[q].arg
                   /\ (log[q].arg \in DOMAIN tasks =>
                          tasks[log[p].arg].section < tasks[log[q].arg].section)
    /\ \A i \in DOMAIN tasks :
          tasks[i].state = "created" => \A j \in DOMAIN tasks : j > i => tasks[j].state = "created"

\* Two dispatches of one cycle have both issued their POST and both are still in cooldown.
C9_Witness ==
    /\ pc = "gather"
    /\ \E i, j \in DOMAIN tasks :
          i < j /\ tasks[i].state = "sleeping" /\ tasks[j].state = "sleeping"

(***************************************************************************)
(* C10                                                                     *)
(***************************************************************************)
\* Every dispatch of the cycle has returned and the cycle has taken its last step: the
\* persistence step, or the logging of the error that ended it.
CycleComplete ==
    /\ \A i \in DOMAIN tasks : tasks[i].state = "done" /\ ReturnedBefore(i, Len(log) + 1)
    /\ log # <<>>
    /\ log[Len(log)].ev \in {"saved", "save_failed", "unchanged", "error"}

\* C10: poll cycles never overlap: a GET is issued only at process start or once the
\* interval wait has elapsed, and the interval wait ends only on a cycle all of whose
\* dispatches have returned and whose persistence step is over.
C10_CyclesNeverOverlap ==
    [][/\ pc' = "fetch" =>
            /\ pc = "call"
            /\ tasks = <<>>
            /\ log = <<>> \/ log = <<Ev("interval", 0)>>
       /\ pc' = "call" => (pc = "sleep" /\ CycleComplete)]_vars

\* The GET of a later cycle, after a cycle that persisted a snapshot.
C10_Witness ==
    /\ pc = "fetch"
    /\ file0.kind = "json" /\ file0.data # EmptyDict

(***************************************************************************)
(* C11                                                                     *)
(***************************************************************************)
\* One cycle is in progress.
Running == pc \in {"fetch", "response", "loop", "gather", "persist"}

\* Between cycles: in the interval wait, or about to call process_shop_data.
Idle == pc \in {"sleep", "call"}

\* C11: the loop has no terminal state: it is always either running a cycle or idle,
\* a running cycle always comes back to idle, whatever its outcome (a failed write of
\* the snapshot file included), and from idle another cycle always starts.
C11_LoopNeverEnds ==
    /\ [](Running \/ Idle)
    /\ []<>Idle
    /\ []<>Running

\* A cycle whose snapshot write failed after truncating the file, now in its interval wait.
C11_Witness ==
    /\ pc = "sleep"
    /\ Happened("save_failed")
    /\ file.kind = "corrupt" /\ file0.kind = "json"

(***************************************************************************)
(* C12                                                                     *)
(***************************************************************************)
\* The names of the fields of an embed, in order.
FieldNames(embed) == [k \in DOMAIN embed |-> embed[k].name]

\* The field order the formatter is to produce for a raw section.
ExpectedFieldNames(section) ==
    <<"**Display Name**", "**Section ID**">>
    \o (IF section.category \notin {Absent, None, ""}
        THEN <<"**Category**", "**Background**">>
        ELSE <<"**Background**">>)
    \o <<"**Group Count**">>
    \o (IF \E g \in DOMAIN section.offerGroups : section.offerGroups[g] = "billboard"
        THEN <<"**Billboard**">>
        ELSE <<>>)
    \o <<"**Context(s)**", "**Possible Release Dates**">>

\* C12: the message of every notification carries Display Name, Section ID, Category
\* then Background (or Background alone without a category), Group Count, Billboard
\* only with a billboard count above zero, Context(s), Possible Release Dates, in this
\* order, and exactly one Background field.
C12_FieldOrder ==
    \A t \in DOMAIN tasks :
        /\ FieldNames(tasks[t].embed) = ExpectedFieldNames(sections[tasks[t].section])
        /\ Cardinality({k \in DOMAIN tasks[t].embed :
                           tasks[t].embed[k].name = "**Background**"}) = 1

\* Two messages of one cycle: category without billboard, and billboard without category.
C12_Witness ==
    \E t, u \in DOMAIN tasks :
        /\ sections[tasks[t].section].category = "Featured"
        /\ Len(tasks[t].embed) = 7
        /\ \A k \in DOMAIN tasks[t].embed : tasks[t].embed[k].name # "**Billboard**"
        /\ sections[tasks[u].section].category = Absent
        /\ Len(tasks[u].embed) = 7
        /\ \E k \in DOMAIN tasks[u].embed : tasks[u].embed[k].name = "**Billboard**"

(***************************************************************************)
(* C13                                                                     *)
(***************************************************************************)
\* The number of ranks of the section that carry start date d.
RanksStarting(section, d) ==
    Cardinality({k \in DOMAIN section.stackRanks : section.stackRanks[k].startDate = d})

\* Record n is a right normalization of the rank list of the raw section.
RanksNormalized(n, section) ==
    LET ranks == section.stackRanks
    IN  /\ \A i, j \in DOMAIN n.contexts :
              i < j => StrRank(n.contexts[i]) < StrRank(n.contexts[j])
        /\ {n.contexts[i] : i \in DOMAIN n.contexts}
              = {IF ranks[k].context = Absent THEN "Unknown" ELSE ranks[k].context :
                    k \in DOMAIN ranks}
        /\ \A i, j \in DOMAIN n.release_dates :
              i < j => StrRank(n.release_dates[i]) <= StrRank(n.release_dates[j])
        /\ \A i \in DOMAIN n.release_dates : n.release_dates[i] \notin {"", Absent, None}
        /\ \A i \in DOMAIN n.release_dates :
              Cardinality({j \in DOMAIN n.release_dates : n.release_dates[j] = n.release_dates[i]})
                  = RanksStarting(section, n.release_dates[i])
        /\ \A k \in DOMAIN ranks :
              ranks[k].startDate \notin {"", Absent, None}
                  => \E i \in DOMAIN n.release_dates : n.release_dates[i] = ranks[k].startDate

\* C13: every normalized record has its contexts sorted and free of duplicates, with
\* "Unknown" for a rank without context, and its release dates sorted, duplicates
\* kept, without empty or missing start dates; also for an empty rank list.
C13_ContextsAndDatesNormalized ==
    \A id \in DOMAIN new_data :
        \E i \in DOMAIN sections :
            /\ section_id_of(sections[i]) = id
            /\ RanksNormalized(new_data[id], sections[i])

\* A mapping whose entries stem from ranks out of order with a repeated context and a
\* repeated date, and from ranks without context or date.
C13_Witness ==
    /\ "a" \in DOMAIN new_data /\ "b" \in DOMAIN new_data
    /\ new_data["a"].contexts = <<"A", "B">>
    /\ new_data["a"].release_dates = <<"2024-01-01", "2024-01-01", "2024-02-01">>
    /\ new_data["b"].contexts = <<"A", "Unknown">>
    /\ new_data["b"].release_dates = <<"2024-01-01">>

(***************************************************************************)
(* C14                                                                     *)
(***************************************************************************)
\* The sections of the current cycle that compared as changed.
Detected == {log[k].arg : k \in Events("detect")}

\* C14: when the cycle before fetched successfully and its write of the snapshot, if
\* any, succeeded, and the current cycle has fetched the same list of sections, the
\* current cycle dispatches no notification and does not write the snapshot file.
C14_QuiescentOnUnchangedCatalog ==
    repeat.same => /\ ~Happened("post")
                   /\ ~WriteAttempted

(***************************************************************************)
(* C15                                                                     *)
(***************************************************************************)
\* The fetch succeeded with a body that lacks the shopData key or the sections key.
LackingKeys ==
    /\ response.kind = "ok"
    /\ ~(response.body.has_shopData /\ response.body.has_sections)
    /\ pc \in {"loop", "gather", "persist", "sleep"}

\* The cycle began with the snapshot overwritten by the empty mapping.
SnapshotEmptied == file0 = FileJson(EmptyDict)

\* What a cycle does with a body that lacks a key: no error, an empty list, no
\* notification, and the empty mapping written over a non-empty snapshot.
LackingKeysIsEmptyList ==
    LackingKeys =>
        /\ sections = <<>> /\ tasks = <<>>
        /\ ~Happened("error") /\ ~Happened("post")
        /\ pc = "sleep" =>
               IF LoadedSnapshot # EmptyDict
               THEN /\ WriteAttempted
                    /\ Happened("saved") => file = FileJson(EmptyDict)
               ELSE ~WriteAttempted /\ file = file0

C16_ErrorAbortsBeforeDispatch ==
    /\ (response.kind = "ok" /\ Happened("error")) =>
            /\ pc = "sleep"
            /\ tasks = <<>>
            /\ ~Happened("post")
            /\ ~WriteAttempted
            /\ file = file0
    /\ (repeat.same /\ repeat.error /\ pc \in {"gather", "persist", "sleep"}) =>
            /\ Happened("error")
            /\ Detected = repeat.detected

\* The second of two cycles over the same list, both ended by the error of the second
\* section after the first one had compared as changed.
C16_Witness ==
    /\ pc = "sleep"
    /\ repeat.same /\ repeat.error
    /\ Happened("error")
    /\ Detected = {1, 2}
    /\ tasks = <<>>

====
